---- MODULE Spec2Model ----
(***************************************************************************)
(* sev-tool (src/main.rs): the fetch-vcek and report commands.             *)
(*                                                                         *)
(* The program is one sequential flow.  Its state is the position in the   *)
(* code (pc), the locals of fetch_vcek / request_vcek, and the part of the *)
(* outside world the program acts on: the firmware calls made, the HTTP    *)
(* requests issued and the answers received, the sleeps taken, standard    *)
(* output, and the file system below the output path.                      *)
(*                                                                         *)
(* Characters are one-character strings, strings that are formatted or     *)
(* inspected are sequences of characters, bytes are integers in 0..255.    *)
(***************************************************************************)
EXTENDS Integers, Sequences, FiniteSets, TLC

VARIABLES
    pc,         \* position in the program
    command,    \* cli.command: "FetchVcek" or "Report"
    output,     \* the --output path, a sequence of path components
    dirs,       \* directories that exist (relative paths)
    files,      \* files that exist: path -> content
    dirs0,      \* dirs when the program started
    files0,     \* files when the program started
    report,     \* Option<AttestationReport> obtained from the firmware
    vcek_url,   \* request_vcek's vcek_url
    requests,   \* URLs of the GETs issued so far, in order
    log,        \* outcome of every GET so far, in order
    response,   \* Option<Response>: the response matched in the loop
    sleeps,     \* durations (seconds) of the sleeps taken so far
    stdout,     \* lines printed so far
    vcek,       \* Option<Vec<u8>>: fetch_vcek's vcek
    err,        \* error chain main returns, outermost context first; <<>> = Ok
    calls,      \* how many times each fallible provider / fs call was made
    logger      \* env_logger initialised

vars == << pc, command, output, dirs, files, dirs0, files0, report, vcek_url,
           requests, log, response, sleeps, stdout, vcek, err, calls, logger >>

----------------------------------------------------------------------------
(* Bounds of the model *)

\* at most this many 429 answers in one run
MaxAttempts == 3
\* response bodies have at most this many bytes
MaxBodyLen == 2

----------------------------------------------------------------------------
(* Program constants *)

CHIP_ID_LEN == 64
RATE_LIMITED == 429
SLEEP_SECS == 10
PAD_WIDTH == 2

KDS_CERT_SITE ==
    << "h","t","t","p","s",":","/","/",
       "k","d","s","i","n","t","f",".","a","m","d",".","c","o","m" >>
KDS_VCEK == << "/","v","c","e","k","/","v","1" >>

HEX_CHARS_LOWER ==
    << "0","1","2","3","4","5","6","7","8","9","a","b","c","d","e","f" >>
DEC_CHARS == << "0","1","2","3","4","5","6","7","8","9" >>

----------------------------------------------------------------------------
(* hex::encode and format! *)

\* hex::encode of one byte: high nibble, then low nibble, lowercase table
EncodeByte(b) == << HEX_CHARS_LOWER[(b \div 16) + 1], HEX_CHARS_LOWER[(b % 16) + 1] >>

RECURSIVE encode(_)
\* hex::encode(&chip_id)
encode(bytes) ==
    IF bytes = <<>> THEN <<>>
    ELSE EncodeByte(Head(bytes)) \o encode(Tail(bytes))

RECURSIVE Display(_)
\* Display of an unsigned integer: its decimal digits, most significant first
Display(v) ==
    IF v < 10 THEN << DEC_CHARS[v + 1] >>
    ELSE Display(v \div 10) \o << DEC_CHARS[(v % 10) + 1] >>

RECURSIVE ZeroPad(_, _)
\* the 0 flag with a minimum width: zeros are put in front while too short
ZeroPad(s, width) ==
    IF Len(s) >= width THEN s ELSE ZeroPad(<< "0" >> \o s, width)

\* Fmt02 gone wrong: the field is cut to its two low digits
Fmt02_Truncate(v) == ZeroPad(Display(v % 100), PAD_WIDTH)

\* the {:02} format specifier applied to a u8
Fmt02(v) == ZeroPad(Display(v), PAD_WIDTH)

\* format!("{KDS_CERT_SITE}{KDS_VCEK}/Genoa/{hw_id}?blSPL={:02}&teeSPL={:02}&snpSPL={:02}&ucodeSPL={:02}", ...)
VcekUrl(chip_id, reported_tcb) ==
    LET hw_id == encode(chip_id)
    IN  KDS_CERT_SITE \o KDS_VCEK
        \o << "/","G","e","n","o","a","/" >>
        \o hw_id
        \o << "?","b","l","S","P","L","=" >> \o Fmt02(reported_tcb.bootloader)
        \o << "&","t","e","e","S","P","L","=" >> \o Fmt02(reported_tcb.tee)
        \o << "&","s","n","p","S","P","L","=" >> \o Fmt02(reported_tcb.snp)
        \o << "&","u","c","o","d","e","S","P","L","=" >> \o Fmt02(reported_tcb.microcode)

----------------------------------------------------------------------------
(* Values the inputs and the environment are drawn from *)

None == [some |-> FALSE, v |-> <<>>]
Some(x) == [some |-> TRUE, v |-> x]

\* a 64-byte chip id whose bytes alternate between a and b
ChipId(a, b) == [i \in 1..CHIP_ID_LEN |-> IF i % 2 = 1 THEN a ELSE b]

TcbVersion(bl, tee, snp, ucode) ==
    [bootloader |-> bl, tee |-> tee, snp |-> snp, microcode |-> ucode]

\* reports the firmware may hand out in a run of the program
Reports ==
    { [chip_id |-> c, reported_tcb |-> t] :
        c \in { ChipId(0, 0), ChipId(171, 205) },
        t \in { TcbVersion(3, 0, 8, 115), TcbVersion(10, 0, 21, 209) } }

\* arguments request_vcek is applied to when its URL is examined on its own
UrlBytes == { 0, 9, 10, 99, 100, 255 }
UrlChipIds == { ChipId(0, 0), ChipId(10, 160), ChipId(171, 205), ChipId(255, 15) }
UrlReports ==
    { [chip_id |-> c, reported_tcb |-> TcbVersion(bl, tee, snp, ucode)] :
        c \in UrlChipIds,
        bl \in UrlBytes, tee \in UrlBytes, snp \in UrlBytes, ucode \in UrlBytes }

\* --output values: the default, a nested one, a bare file name, the empty path
DefaultOutput == << "certs", "VCEK.bin" >>
OutputPaths ==
    { DefaultOutput, << "certs", "sub", "VCEK.bin" >>, << "VCEK.bin" >>, <<>> }

\* HTTP status codes the server answers with
Statuses == { 200, 404, 428, 429, 500 }

\* response bodies
BodyBytes == { 67, 255 }
Bodies == UNION { [1..n -> BodyBytes] : n \in 0..MaxBodyLen }

\* content of an output file left over from an earlier run
OldContent == << 79, 76, 68 >>

\* lines the program prints
Notice429 == << "Received 429, sleeping for 10 seconds" >>
SavedLine(path) == << "VCEK certificate saved to" >> \o path
ReportLine == << "{:#?}", "report" >>

\* outcomes of a GET as recorded in log
TransportError == [ok |-> FALSE, status |-> 0]
Answered(status) == [ok |-> TRUE, status |-> status]

----------------------------------------------------------------------------
(* Paths and the file system *)

\* Path::parent: None for the empty path, else the path without its last component
Parent(path) ==
    IF path = <<>> THEN None ELSE Some(SubSeq(path, 1, Len(path) - 1))

\* the directories path names, outermost first, up to k components
Ancestors(path, k) == { SubSeq(path, 1, i) : i \in 1..k }

\* the file system states the program may start in, given the output path:
\* any leading part of the parent directories exists, and the output file
\* exists (from an earlier run) only if all of its parent directories do
StartStates(path) ==
    LET par == Parent(path) IN
    IF ~par.some
    THEN { [dirs |-> {}, files |-> <<>>] }
    ELSE { [dirs |-> Ancestors(par.v, k), files |-> <<>>] : k \in 0..Len(par.v) }
         \cup { [dirs |-> Ancestors(par.v, Len(par.v)), files |-> (path :> OldContent)] }

----------------------------------------------------------------------------
(* Initial state: the process has started, nothing has run *)

NoCalls == [open |-> 0, get_report |-> 0, create_dir_all |-> 0, create |-> 0, write_all |-> 0]

InitLocals ==
    /\ report = None
    /\ vcek_url = <<>>
    /\ requests = <<>>
    /\ log = <<>>
    /\ response = None
    /\ sleeps = <<>>
    /\ stdout = <<>>
    /\ vcek = None
    /\ err = <<>>
    /\ calls = NoCalls
    /\ logger = FALSE

Init ==
    /\ pc = "main"
    /\ command \in { "FetchVcek", "Report" }
    /\ output \in OutputPaths
    /\ \E fs \in StartStates(output) :
          /\ dirs = fs.dirs /\ dirs0 = fs.dirs
          /\ files = fs.files /\ files0 = fs.files
    /\ InitLocals

----------------------------------------------------------------------------
(* main *)

\* the program ends with this error chain (<<>> for Ok(()))
Exit(chain) == pc' = "exit" /\ err' = chain

Called(op) == calls' = [calls EXCEPT ![op] = @ + 1]

\* main: Cli::parse and the match on cli.command
Main ==
    /\ pc = "main"
    /\ pc' = IF command = "FetchVcek" THEN "fetch_vcek" ELSE "display_report"
    /\ UNCHANGED << command, output, dirs, files, dirs0, files0, report, vcek_url,
                    requests, log, response, sleeps, stdout, vcek, err, calls, logger >>

----------------------------------------------------------------------------
(* fetch_vcek: the attestation provider *)

\* Firmware::open() succeeds
FetchOpenOk ==
    /\ pc = "fetch_vcek"
    /\ Called("open")
    /\ pc' = "fetch_get_report"
    /\ UNCHANGED << command, output, dirs, files, dirs0, files0, report, vcek_url,
                    requests, log, response, sleeps, stdout, vcek, err, logger >>

\* Firmware::open() fails: .context("Failed to open firmware")?
FetchOpenErr ==
    /\ pc = "fetch_vcek"
    /\ Called("open")
    /\ Exit(<< "Failed to open firmware", "open error" >>)
    /\ UNCHANGED << command, output, dirs, files, dirs0, files0, report, vcek_url,
                    requests, log, response, sleeps, stdout, vcek, logger >>

\* FetchGetReportOk gone wrong: the output file is created before the fetch
FetchGetReportOk_CreateFirst ==
    /\ pc = "fetch_get_report"
    /\ Called("get_report")
    /\ \E r \in Reports : report' = Some(r)
    /\ files' = (output :> <<>>) @@ files
    /\ pc' = "request_vcek"
    /\ UNCHANGED << command, output, dirs, dirs0, files0, vcek_url,
                    requests, log, response, sleeps, stdout, vcek, err, logger >>

\* fw.get_report(..) succeeds; request_vcek is called with its fields
FetchGetReportOk ==
    /\ pc = "fetch_get_report"
    /\ Called("get_report")
    /\ \E r \in Reports : report' = Some(r)
    /\ pc' = "request_vcek"
    /\ UNCHANGED << command, output, dirs, files, dirs0, files0, vcek_url,
                    requests, log, response, sleeps, stdout, vcek, err, logger >>

\* FetchGetReportErr gone wrong: the report is asked for a second time
FetchGetReportErr_Retry ==
    /\ pc = "fetch_get_report"
    /\ Called("get_report")
    /\ IF calls.get_report = 0
       THEN pc' = "fetch_get_report" /\ err' = err
       ELSE Exit(<< "Failed to get attestation report", "report error" >>)
    /\ UNCHANGED << command, output, dirs, files, dirs0, files0, report, vcek_url,
                    requests, log, response, sleeps, stdout, vcek, logger >>

\* fw.get_report(..) fails: .context("Failed to get attestation report")?
FetchGetReportErr ==
    /\ pc = "fetch_get_report"
    /\ Called("get_report")
    /\ Exit(<< "Failed to get attestation report", "report error" >>)
    /\ UNCHANGED << command, output, dirs, files, dirs0, files0, report, vcek_url,
                    requests, log, response, sleeps, stdout, vcek, logger >>

----------------------------------------------------------------------------
(* request_vcek *)

\* the code before the loop: hw_id and vcek_url
BuildUrl ==
    /\ pc = "request_vcek"
    /\ vcek_url' = VcekUrl(report.v.chip_id, report.v.reported_tcb)
    /\ pc' = "loop"
    /\ UNCHANGED << command, output, dirs, files, dirs0, files0, report,
                    requests, log, response, sleeps, stdout, vcek, err, calls, logger >>

\* GetTransportErr gone wrong: a transport failure is retried like a 429
GetTransportErr_Retry ==
    /\ pc = "loop"
    /\ Len(sleeps) < MaxAttempts
    /\ requests' = Append(requests, vcek_url)
    /\ log' = Append(log, TransportError)
    /\ pc' = "sleep"
    /\ UNCHANGED << command, output, dirs, files, dirs0, files0, report, vcek_url,
                    response, sleeps, stdout, vcek, err, calls, logger >>

\* reqwest::get(&vcek_url) fails: request_vcek returns the error with its
\* context, fetch_vcek adds "Failed to fetch VCEK" and returns
GetTransportErr ==
    /\ pc = "loop"
    /\ requests' = Append(requests, vcek_url)
    /\ log' = Append(log, TransportError)
    /\ Exit(<< "Failed to fetch VCEK", "Failed to get VCEK from URL", "transport error" >>)
    /\ UNCHANGED << command, output, dirs, files, dirs0, files0, report, vcek_url,
                    response, sleeps, stdout, vcek, calls, logger >>

\* Get429 gone wrong: the loop continues at once, without sleeping
Get429_NoSleep ==
    /\ pc = "loop"
    /\ Len(log) < MaxAttempts
    /\ requests' = Append(requests, vcek_url)
    /\ \E body \in Bodies :
          response' = Some([status |-> RATE_LIMITED, body |-> body])
    /\ log' = Append(log, Answered(RATE_LIMITED))
    /\ stdout' = Append(stdout, Notice429)
    /\ pc' = "loop"
    /\ UNCHANGED << command, output, dirs, files, dirs0, files0, report, vcek_url,
                    sleeps, vcek, err, calls, logger >>

\* Get429 gone wrong: the second 429 in a row ends the fetch with an error
Get429_GiveUp ==
    /\ pc = "loop"
    /\ Len(sleeps) < MaxAttempts
    /\ requests' = Append(requests, vcek_url)
    /\ \E body \in Bodies :
          response' = Some([status |-> RATE_LIMITED, body |-> body])
    /\ log' = Append(log, Answered(RATE_LIMITED))
    /\ stdout' = Append(stdout, Notice429)
    /\ IF Len(sleeps) >= 1
       THEN Exit(<< "Failed to fetch VCEK", "too many attempts" >>)
       ELSE pc' = "sleep" /\ err' = err
    /\ UNCHANGED << command, output, dirs, files, dirs0, files0, report, vcek_url,
                    sleeps, vcek, calls, logger >>

\* reqwest::get(&vcek_url) answers with status 429: the notice is printed
Get429 ==
    /\ pc = "loop"
    /\ Len(sleeps) < MaxAttempts
    /\ requests' = Append(requests, vcek_url)
    /\ \E body \in Bodies :
          response' = Some([status |-> RATE_LIMITED, body |-> body])
    /\ log' = Append(log, Answered(RATE_LIMITED))
    /\ stdout' = Append(stdout, Notice429)
    /\ pc' = "sleep"
    /\ UNCHANGED << command, output, dirs, files, dirs0, files0, report, vcek_url,
                    sleeps, vcek, err, calls, logger >>

\* Sleep gone wrong: the delay grows with the number of retries
Sleep_Backoff ==
    /\ pc = "sleep"
    /\ sleeps' = Append(sleeps, SLEEP_SECS * (Len(sleeps) + 1))
    /\ pc' = "loop"
    /\ UNCHANGED << command, output, dirs, files, dirs0, files0, report, vcek_url,
                    requests, log, response, stdout, vcek, err, calls, logger >>

\* std::thread::sleep(Duration::from_secs(10)); continue
Sleep ==
    /\ pc = "sleep"
    /\ sleeps' = Append(sleeps, SLEEP_SECS)
    /\ pc' = "loop"
    /\ UNCHANGED << command, output, dirs, files, dirs0, files0, report, vcek_url,
                    requests, log, response, stdout, vcek, err, calls, logger >>

\* GetOther gone wrong: statuses from 400 on are turned into errors
GetOther_ErrorForStatus ==
    /\ pc = "loop"
    /\ requests' = Append(requests, vcek_url)
    /\ \E status \in Statuses, body \in Bodies :
          /\ status # RATE_LIMITED
          /\ response' = Some([status |-> status, body |-> body])
          /\ log' = Append(log, Answered(status))
          /\ IF status >= 400
             THEN Exit(<< "Failed to fetch VCEK", "status error" >>)
             ELSE pc' = "read_body" /\ err' = err
    /\ UNCHANGED << command, output, dirs, files, dirs0, files0, report, vcek_url,
                    sleeps, stdout, vcek, calls, logger >>

\* reqwest::get(&vcek_url) answers with any other status
GetOther ==
    /\ pc = "loop"
    /\ requests' = Append(requests, vcek_url)
    /\ \E status \in Statuses, body \in Bodies :
          /\ status # RATE_LIMITED
          /\ response' = Some([status |-> status, body |-> body])
          /\ log' = Append(log, Answered(status))
    /\ pc' = "read_body"
    /\ UNCHANGED << command, output, dirs, files, dirs0, files0, report, vcek_url,
                    sleeps, stdout, vcek, err, calls, logger >>

\* response.bytes().await succeeds: return Ok(rsp_bytes)
ReadBodyOk ==
    /\ pc = "read_body"
    /\ vcek' = Some(response.v.body)
    /\ pc' = "create_dir"
    /\ UNCHANGED << command, output, dirs, files, dirs0, files0, report, vcek_url,
                    requests, log, response, sleeps, stdout, err, calls, logger >>

\* ReadBodyErr gone wrong: a failed body read sends the loop round again
ReadBodyErr_Retry ==
    /\ pc = "read_body"
    /\ IF Len(log) <= MaxAttempts
       THEN pc' = "loop" /\ err' = err
       ELSE Exit(<< "Failed to fetch VCEK", "body error" >>)
    /\ UNCHANGED << command, output, dirs, files, dirs0, files0, report, vcek_url,
                    requests, log, response, sleeps, stdout, vcek, calls, logger >>

\* response.bytes().await fails: the ? returns the error, without context,
\* and fetch_vcek adds "Failed to fetch VCEK"
ReadBodyErr ==
    /\ pc = "read_body"
    /\ Exit(<< "Failed to fetch VCEK", "body error" >>)
    /\ UNCHANGED << command, output, dirs, files, dirs0, files0, report, vcek_url,
                    requests, log, response, sleeps, stdout, vcek, calls, logger >>

----------------------------------------------------------------------------
(* fetch_vcek: saving the certificate *)

\* PathBuf::from(output_path).parent() is None: nothing is created
CreateDirSkip ==
    /\ pc = "create_dir"
    /\ ~Parent(output).some
    /\ pc' = "file_create"
    /\ UNCHANGED << command, output, dirs, files, dirs0, files0, report, vcek_url,
                    requests, log, response, sleeps, stdout, vcek, err, calls, logger >>

\* fs::create_dir_all(parent) succeeds: every missing ancestor now exists
\* (the empty parent of a bare file name is Ok and creates nothing)
CreateDirOk ==
    /\ pc = "create_dir"
    /\ Parent(output).some
    /\ Called("create_dir_all")
    /\ dirs' = dirs \cup Ancestors(Parent(output).v, Len(Parent(output).v))
    /\ pc' = "file_create"
    /\ UNCHANGED << command, output, files, dirs0, files0, report, vcek_url,
                    requests, log, response, sleeps, stdout, vcek, err, logger >>

\* fs::create_dir_all(parent) fails after creating the first k ancestors
CreateDirErr ==
    /\ pc = "create_dir"
    /\ Parent(output).some
    /\ Len(Parent(output).v) > 0
    /\ Called("create_dir_all")
    /\ \E k \in 0..(Len(Parent(output).v) - 1) :
          dirs' = dirs \cup Ancestors(Parent(output).v, k)
    /\ Exit(<< "create_dir_all error" >>)
    /\ UNCHANGED << command, output, files, dirs0, files0, report, vcek_url,
                    requests, log, response, sleeps, stdout, vcek, logger >>

\* File::create(output_path) succeeds: the file exists and is empty
FileCreateOk ==
    /\ pc = "file_create"
    /\ output # <<>>
    /\ Parent(output).v = <<>> \/ Parent(output).v \in dirs
    /\ Called("create")
    /\ files' = (output :> <<>>) @@ files
    /\ pc' = "write"
    /\ UNCHANGED << command, output, dirs, dirs0, files0, report, vcek_url,
                    requests, log, response, sleeps, stdout, vcek, err, logger >>

\* File::create(output_path) fails (always so for the empty path)
FileCreateErr ==
    /\ pc = "file_create"
    /\ Called("create")
    /\ Exit(<< "create error" >>)
    /\ UNCHANGED << command, output, dirs, files, dirs0, files0, report, vcek_url,
                    requests, log, response, sleeps, stdout, vcek, logger >>

\* WriteOk gone wrong: a single short write is taken for the whole of it
WriteOk_Short ==
    /\ pc = "write"
    /\ Called("write_all")
    /\ files' = [files EXCEPT ![output] =
                    IF vcek.v = <<>> THEN <<>> ELSE SubSeq(vcek.v, 1, Len(vcek.v) - 1)]
    /\ pc' = "print"
    /\ UNCHANGED << command, output, dirs, dirs0, files0, report, vcek_url,
                    requests, log, response, sleeps, stdout, vcek, err, logger >>

\* file.write_all(&vcek) succeeds
WriteOk ==
    /\ pc = "write"
    /\ Called("write_all")
    /\ files' = [files EXCEPT ![output] = vcek.v]
    /\ pc' = "print"
    /\ UNCHANGED << command, output, dirs, dirs0, files0, report, vcek_url,
                    requests, log, response, sleeps, stdout, vcek, err, logger >>

\* file.write_all(&vcek) fails after writing the first k bytes
\* (writing no bytes cannot fail)
WriteErr ==
    /\ pc = "write"
    /\ Len(vcek.v) > 0
    /\ Called("write_all")
    /\ \E k \in 0..(Len(vcek.v) - 1) :
          files' = [files EXCEPT ![output] = SubSeq(vcek.v, 1, k)]
    /\ Exit(<< "write_all error" >>)
    /\ UNCHANGED << command, output, dirs, dirs0, files0, report, vcek_url,
                    requests, log, response, sleeps, stdout, vcek, logger >>

\* println!("VCEK certificate saved to {}", output_path); Ok(())
PrintSaved ==
    /\ pc = "print"
    /\ stdout' = Append(stdout, SavedLine(output))
    /\ Exit(<<>>)
    /\ UNCHANGED << command, output, dirs, files, dirs0, files0, report, vcek_url,
                    requests, log, response, sleeps, vcek, calls, logger >>

----------------------------------------------------------------------------
(* display_report *)

\* env_logger init, Firmware::open() succeeds (log::info! goes to the logger)
DisplayOpenOk ==
    /\ pc = "display_report"
    /\ logger' = TRUE
    /\ Called("open")
    /\ pc' = "display_get_report"
    /\ UNCHANGED << command, output, dirs, files, dirs0, files0, report, vcek_url,
                    requests, log, response, sleeps, stdout, vcek, err >>

\* env_logger init, Firmware::open() fails
DisplayOpenErr ==
    /\ pc = "display_report"
    /\ logger' = TRUE
    /\ Called("open")
    /\ Exit(<< "Failed to open firmware", "open error" >>)
    /\ UNCHANGED << command, output, dirs, files, dirs0, files0, report, vcek_url,
                    requests, log, response, sleeps, stdout, vcek >>

\* fw.get_report(..) succeeds; println!("{:#?}", report); Ok(())
DisplayGetReportOk ==
    /\ pc = "display_get_report"
    /\ Called("get_report")
    /\ \E r \in Reports : report' = Some(r)
    /\ stdout' = Append(stdout, ReportLine)
    /\ Exit(<<>>)
    /\ UNCHANGED << command, output, dirs, files, dirs0, files0, vcek_url,
                    requests, log, response, sleeps, vcek, logger >>

\* fw.get_report(..) fails
DisplayGetReportErr ==
    /\ pc = "display_get_report"
    /\ Called("get_report")
    /\ Exit(<< "Failed to get attestation report", "report error" >>)
    /\ UNCHANGED << command, output, dirs, files, dirs0, files0, report, vcek_url,
                    requests, log, response, sleeps, stdout, vcek, logger >>

----------------------------------------------------------------------------
(* Specifications *)

Next ==
    \/ Main
    \/ FetchOpenOk
    \/ FetchOpenErr
    \/ FetchGetReportOk
    \/ FetchGetReportErr
    \/ BuildUrl
    \/ GetTransportErr
    \/ Get429
    \/ Sleep
    \/ GetOther
    \/ ReadBodyOk
    \/ ReadBodyErr
    \/ CreateDirSkip
    \/ CreateDirOk
    \/ CreateDirErr
    \/ FileCreateOk
    \/ FileCreateErr
    \/ WriteOk
    \/ WriteErr
    \/ PrintSaved
    \/ DisplayOpenOk
    \/ DisplayOpenErr
    \/ DisplayGetReportOk
    \/ DisplayGetReportErr

\* the whole program
Spec == Init /\ [][Next]_vars

\* request_vcek entered with arguments drawn from UrlReports
InitUrl ==
    /\ pc = "request_vcek"
    /\ command = "FetchVcek"
    /\ output = DefaultOutput
    /\ dirs = {} /\ dirs0 = {}
    /\ files = <<>> /\ files0 = <<>>
    /\ \E r \in UrlReports : report = Some(r)
    /\ vcek_url = <<>>
    /\ requests = <<>>
    /\ log = <<>>
    /\ response = None
    /\ sleeps = <<>>
    /\ stdout = <<>>
    /\ vcek = None
    /\ err = <<>>
    /\ calls = [NoCalls EXCEPT !.open = 1, !.get_report = 1]
    /\ logger = FALSE

NextUrl == BuildUrl

\* the URL construction of request_vcek on its own
SpecUrl == InitUrl /\ [][NextUrl]_vars

----------------------------------------------------------------------------
(* Vocabulary of the properties *)

Last(s) == s[Len(s)]

\* positions of the retry loop of request_vcek
LoopPcs == { "loop", "sleep", "read_body" }

\* positions before request_vcek has returned
BeforeReturnPcs ==
    { "main", "fetch_vcek", "fetch_get_report", "request_vcek" } \cup LoopPcs

FsUnchanged == dirs = dirs0 /\ files = files0
NoFsCalls == calls.create_dir_all = 0 /\ calls.create = 0 /\ calls.write_all = 0

Is429(o) == o.ok /\ o.status = 429
IsOther(o) == o.ok /\ o.status # 429

Count429 == Cardinality({ i \in DOMAIN log : Is429(log[i]) })
NoticeCount == Cardinality({ i \in DOMAIN stdout : stdout[i] = Notice429 })

OpenErrChain == << "Failed to open firmware", "open error" >>
ReportErrChain == << "Failed to get attestation report", "report error" >>
TransportErrChain ==
    << "Failed to fetch VCEK", "Failed to get VCEK from URL", "transport error" >>
BodyErrChain == << "Failed to fetch VCEK", "body error" >>
FsErrChains == { << "create_dir_all error" >>, << "create error" >>, << "write_all error" >> }

\* a GET was answered in this step
NewOutcome == Len(log') = Len(log) + 1

----------------------------------------------------------------------------
(* C1 *)

C1_UrlsIdentical == \A i \in DOMAIN requests : requests[i] = requests[1]
C1_DelayFixed == \A i \in DOMAIN sleeps : sleeps[i] = 10
C1_On429 ==
    (NewOutcome /\ Is429(Last(log'))) =>
        /\ stdout' = Append(stdout, Notice429)
        /\ pc' = "sleep"
        /\ sleeps' = sleeps
C1_AfterNotice ==
    pc = "sleep" =>
        /\ sleeps' = Append(sleeps, 10)
        /\ requests' = requests
        /\ pc' = "loop"
C1_AfterSleep ==
    (pc = "loop" /\ requests # <<>>) => requests' = Append(requests, Last(requests))

\* C1: on every 429 answer, whatever the attempt number, the notice is
\* printed, then 10 seconds are slept (always 10, never more or less), then
\* the GET is issued again to the same URL as every GET before it.
C1_Retry429 ==
    /\ [](C1_UrlsIdentical /\ C1_DelayFixed)
    /\ [][C1_On429 /\ C1_AfterNotice /\ C1_AfterSleep]_vars

\* the third GET has been issued after two 429 answers and two sleeps
C1_Witness ==
    /\ Len(requests) = 3
    /\ Is429(log[1]) /\ Is429(log[2])
    /\ sleeps = << 10, 10 >>
    /\ requests[3] = requests[1]

----------------------------------------------------------------------------
(* C2 *)

\* C2: a GET that fails at the transport level, on whichever attempt, is the
\* last thing request_vcek does: no request and no sleep follows it, no bytes
\* are returned, and the program ends with the error chain that starts with
\* "Failed to fetch VCEK".
C2_TransportErrorFatal ==
    \A i \in DOMAIN log :
        log[i] = TransportError =>
            /\ i = Len(log)
            /\ Len(requests) = i
            /\ Len(sleeps) = i - 1
            /\ pc = "exit"
            /\ err = TransportErrChain
            /\ Head(err) = "Failed to fetch VCEK"
            /\ ~vcek.some

\* the transport fails on the third GET, after two 429 answers
C2_Witness ==
    /\ Len(log) = 3
    /\ Is429(log[1]) /\ Is429(log[2])
    /\ log[3] = TransportError
    /\ pc = "exit"

----------------------------------------------------------------------------
(* C3 *)

\* C3: an answer with a status other than 429 is the last GET (no retry); once
\* its body is read request_vcek returns exactly that body, and the only
\* errors the program can end with afterwards are a failed body read or a
\* file system error, never one about the status.
C3_OtherStatusIsSuccess ==
    \A i \in DOMAIN log :
        IsOther(log[i]) =>
            /\ i = Len(log)
            /\ Len(requests) = i
            /\ response.some /\ response.v.status = log[i].status
            /\ err \in { <<>>, BodyErrChain } \cup FsErrChains
            /\ (pc # "read_body" /\ err # BodyErrChain) => vcek = Some(response.v.body)

\* a 500 answer with a non-empty body was returned and saved as the certificate
C3_Witness ==
    /\ Len(log) = 1 /\ log[1] = Answered(500)
    /\ vcek.some /\ Len(vcek.v) > 0 /\ vcek.v = response.v.body
    /\ pc = "exit" /\ err = <<>>
    /\ files[output] = response.v.body

----------------------------------------------------------------------------
(* C4 *)

\* C4: when request_vcek has returned bytes after n answers of 429 followed
\* by one other answer with body B, it has issued n+1 GETs, slept n times,
\* printed n notices, and the bytes are B; and at no time are there more
\* sleeps than 429 answers or more 429 answers than sleeps plus the one being
\* handled.
C4_CountsOnReturn ==
    /\ Len(sleeps) <= Count429
    /\ Count429 <= Len(sleeps) + 1
    /\ NoticeCount = Count429
    /\ vcek.some =>
          LET n == Len(log) - 1 IN
          /\ n >= 0
          /\ \A i \in 1..n : Is429(log[i])
          /\ IsOther(log[n + 1])
          /\ Len(requests) = n + 1
          /\ Len(sleeps) = n
          /\ NoticeCount = n
          /\ vcek.v = response.v.body

\* two 429 answers, then a 200 with a non-empty body, which was returned
C4_Witness ==
    /\ vcek.some
    /\ Len(log) = 3 /\ log[3] = Answered(200)
    /\ Len(vcek.v) > 0
    /\ Len(sleeps) = 2

----------------------------------------------------------------------------
(* C5 *)

\* C5: nothing below the output path is created or changed, and no file
\* system call is made, before request_vcek has returned its bytes; so the
\* file system is as the program found it while the retry loop runs and when
\* the program ends with a provider, transport or body-read error.
C5_NoWriteBeforeBytes ==
    /\ (~FsUnchanged \/ ~NoFsCalls) => vcek.some
    /\ pc \in BeforeReturnPcs => FsUnchanged
    /\ err \in { OpenErrChain, ReportErrChain, TransportErrChain, BodyErrChain } => FsUnchanged

\* the fetch ended with a transport error after a 429; the file of an earlier run is untouched
C5_Witness ==
    /\ pc = "exit" /\ err = TransportErrChain
    /\ Len(log) = 2
    /\ output \in DOMAIN files0
    /\ files[output] = OldContent

----------------------------------------------------------------------------
(* C6 *)

Succeeded == pc = "exit" /\ err = <<>> /\ command = "FetchVcek"
SavedPrinted == \E i \in DOMAIN stdout : stdout[i] = SavedLine(output)

\* C6: when fetch-vcek succeeds every parent directory of the output path
\* exists, the output file holds exactly the bytes the fetcher returned, which
\* are the body of the last answer, and the confirmation line for the path is
\* the last line printed; and that line is never on standard output unless
\* the one write has been made and the file holds those bytes.
C6_SavedExactly ==
    /\ Succeeded =>
          /\ Parent(output).some
          /\ \A k \in 1..Len(Parent(output).v) : SubSeq(output, 1, k) \in dirs
          /\ output \in DOMAIN files
          /\ files[output] = vcek.v
          /\ vcek.v = response.v.body
          /\ IsOther(Last(log))
          /\ stdout # <<>> /\ Last(stdout) = SavedLine(output)
    /\ SavedPrinted =>
          /\ calls.write_all = 1
          /\ output \in DOMAIN files
          /\ files[output] = vcek.v

\* certs/sub/VCEK.bin was saved with a non-empty body where no directory existed
C6_Witness ==
    /\ Succeeded
    /\ output = << "certs", "sub", "VCEK.bin" >>
    /\ dirs0 = {}
    /\ << "certs", "sub" >> \in dirs
    /\ Len(files[output]) > 0

----------------------------------------------------------------------------
(* C7 *)

\* C7: each provider call and each file system call is made at most once in
\* a run; a provider error ends the program with no GET issued, no file
\* system call made and nothing changed on disk; a file system error ends the
\* program.
C7_ErrorsFatalNotRetried ==
    /\ \A op \in DOMAIN calls : calls[op] <= 1
    /\ err \in { OpenErrChain, ReportErrChain } =>
          /\ pc = "exit"
          /\ requests = <<>>
          /\ NoFsCalls
          /\ FsUnchanged
    /\ err \in FsErrChains => pc = "exit"

\* fetch-vcek ended because the report could not be retrieved
C7_Witness ==
    /\ command = "FetchVcek"
    /\ pc = "exit" /\ err = ReportErrChain
    /\ calls.open = 1 /\ calls.get_report = 1
    /\ requests = <<>>

----------------------------------------------------------------------------
(* C8 *)

C8_LeavesOnlyBy ==
    (pc \in LoopPcs /\ pc' \notin LoopPcs) =>
        /\ log' # <<>>
        /\ Last(log') = TransportError \/ IsOther(Last(log'))
C8_EndsAtThatAttempt ==
    /\ (NewOutcome /\ Last(log') = TransportError) => pc' = "exit"
    /\ (NewOutcome /\ IsOther(Last(log'))) => pc' = "read_body"
    /\ pc = "read_body" => (pc' \notin LoopPcs /\ requests' = requests)
C8_StaysOn429 ==
    (NewOutcome /\ Is429(Last(log'))) => (pc' \in LoopPcs /\ err' = <<>>)
C8_OnlyAnswered429 ==
    (log # <<>> /\ \A i \in DOMAIN log : Is429(log[i])) => pc \in { "sleep", "loop" }

\* C8: the loop is left only in a step whose last outcome is a transport
\* error or an answer other than 429, and it is left at that very attempt
\* with no further GET; a 429 answer keeps the program in the loop, so as long
\* as every answer so far was 429 the fetch has not returned.
C8_LoopExit ==
    /\ []C8_OnlyAnswered429
    /\ [][C8_LeavesOnlyBy /\ C8_EndsAtThatAttempt /\ C8_StaysOn429]_vars

\* three answers, all 429, three sleeps, and the loop is about to issue the fourth GET
C8_Witness ==
    /\ Len(log) = 3
    /\ \A i \in DOMAIN log : Is429(log[i])
    /\ Len(sleeps) = 3
    /\ pc = "loop"

----------------------------------------------------------------------------
(* C10 *)

C10_BodyErrState ==
    err = BodyErrChain =>
        /\ pc = "exit"
        /\ ~vcek.some
        /\ IsOther(Last(log))
        /\ Len(requests) = Len(log)
        /\ NoFsCalls
        /\ FsUnchanged
C10_BodyErrStep ==
    (pc = "read_body" /\ ~vcek'.some) =>
        /\ err' = BodyErrChain
        /\ pc' = "exit"
        /\ requests' = requests

\* C10: when the body of an answer other than 429 cannot be read, no bytes
\* are returned, the program ends with the error, no GET is issued again, and
\* no file system call is made and nothing on disk is changed.
C10_BodyReadFailure ==
    /\ []C10_BodyErrState
    /\ [][C10_BodyErrStep]_vars

\* the body of a 200 answer could not be read
C10_Witness ==
    /\ err = BodyErrChain
    /\ Len(log) = 1 /\ log[1] = Answered(200)
    /\ ~vcek.some
    /\ pc = "exit"

----------------------------------------------------------------------------
(* C9 *)

C9_Prefix ==
    << "h","t","t","p","s",":","/","/",
       "k","d","s","i","n","t","f",".","a","m","d",".","c","o","m",
       "/","v","c","e","k","/","v","1","/","G","e","n","o","a","/" >>

C9_LowerHex == << "0","1","2","3","4","5","6","7","8","9","a","b","c","d","e","f" >>
C9_Digits == << "0","1","2","3","4","5","6","7","8","9" >>

\* value of a hex or decimal character (16 or 10 if it is none)
C9_HexVal(c) ==
    IF \E i \in 1..16 : C9_LowerHex[i] = c
    THEN (CHOOSE i \in 1..16 : C9_LowerHex[i] = c) - 1 ELSE 16
C9_DecVal(c) ==
    IF \E i \in 1..10 : C9_Digits[i] = c
    THEN (CHOOSE i \in 1..10 : C9_Digits[i] = c) - 1 ELSE 10

\* s is the decimal numeral of v written with exactly w digits
C9_IsNumeral(s, v, w) ==
    /\ Len(s) = w
    /\ \A i \in 1..w : C9_DecVal(s[i]) < 10
    /\ v = IF w = 2 THEN 10 * C9_DecVal(s[1]) + C9_DecVal(s[2])
           ELSE 100 * C9_DecVal(s[1]) + 10 * C9_DecVal(s[2]) + C9_DecVal(s[3])
    /\ w = 3 => s[1] # "0"

C9_Width(v) == IF v <= 99 THEN 2 ELSE 3

\* s is the 128-character lowercase hex form of the 64 bytes of id
C9_IsHexOf(s, id) ==
    /\ Len(s) = 128
    /\ \A i \in 1..128 : C9_HexVal(s[i]) < 16
    /\ \A j \in 1..64 : id[j] = 16 * C9_HexVal(s[2 * j - 1]) + C9_HexVal(s[2 * j])

\* url from position from on is name followed by the numeral of v
C9_Param(url, from, name, v) ==
    /\ SubSeq(url, from, from + Len(name) - 1) = name
    /\ C9_IsNumeral(SubSeq(url, from + Len(name), from + Len(name) + C9_Width(v) - 1),
                    v, C9_Width(v))
C9_ParamEnd(from, name, v) == from + Len(name) + C9_Width(v)

C9_MatchesTemplate(url, id, tcb) ==
    LET p0 == Len(C9_Prefix) + 1
        p1 == p0 + 128
        n1 == << "?","b","l","S","P","L","=" >>
        n2 == << "&","t","e","e","S","P","L","=" >>
        n3 == << "&","s","n","p","S","P","L","=" >>
        n4 == << "&","u","c","o","d","e","S","P","L","=" >>
        p2 == C9_ParamEnd(p1, n1, tcb.bootloader)
        p3 == C9_ParamEnd(p2, n2, tcb.tee)
        p4 == C9_ParamEnd(p3, n3, tcb.snp)
        p5 == C9_ParamEnd(p4, n4, tcb.microcode)
    IN  /\ Len(url) = p5 - 1
        /\ SubSeq(url, 1, p0 - 1) = C9_Prefix
        /\ C9_IsHexOf(SubSeq(url, p0, p1 - 1), id)
        /\ C9_Param(url, p1, n1, tcb.bootloader)
        /\ C9_Param(url, p2, n2, tcb.tee)
        /\ C9_Param(url, p3, n3, tcb.snp)
        /\ C9_Param(url, p4, n4, tcb.microcode)

\* C9: the URL request_vcek builds is the template
\* https://kdsintf.amd.com/vcek/v1/Genoa/<id>?blSPL=..&teeSPL=..&snpSPL=..&ucodeSPL=..
\* where <id> is the 128 lowercase hex characters of the 64-byte chip id and
\* each field is its decimal value, two digits when at most 99 and its three
\* digits when 100 or more.
C9_UrlTemplate ==
    pc = "loop" =>
        C9_MatchesTemplate(vcek_url, report.v.chip_id, report.v.reported_tcb)

\* a URL was built from fields 9, 100, 255 and 99 and a chip id with letters in its hex form
C9_Witness ==
    /\ pc = "loop"
    /\ report.v.chip_id = ChipId(171, 205)
    /\ report.v.reported_tcb = TcbVersion(9, 100, 255, 99)
    /\ Len(vcek_url) = Len(C9_Prefix) + 128 + 7 + 2 + 8 + 3 + 8 + 3 + 10 + 2

====
